---- MODULE Spec2Model ----
(***************************************************************************)
(* A model of mini-cpu: the six-opcode instruction set and its 5-byte      *)
(* encoding (src/src/main.rs), the compiler's symbol environment and       *)
(* inlining (src/src/compiler.rs), the macro table (src/src/macros.rs) and *)
(* the run loop Compiler::run.                                             *)
(*                                                                         *)
(* Identifiers are sequences of one-character strings, as the parser       *)
(* builds them (parser.rs, Ident::parse).  Memory is the 65536-byte buffer *)
(* of main(); it is kept as a function from the addresses holding a        *)
(* non-zero byte to that byte, every other address holding 0.              *)
(***************************************************************************)
EXTENDS Integers, Sequences, FiniteSets, TLC

VARIABLES
    defines,    \* Compiler.defines : name -> Value
    args,       \* Compiler.args : name -> Value
    functions,  \* Compiler.functions : name -> Function
    files,      \* Compiler.files : the names of the registered source units
    commands,   \* Compiler.commands : the Program
    result,     \* what the last compile operation or codec call returned
    memory,     \* the byte buffer handed to run
    entry,      \* run's parameter pc_val, the entry address
    pc_val,     \* run's local pc_val
    macros,     \* run's local macros : address -> indices of MacroCalls
    pos,        \* where the process is
    iter,       \* number of run-loop iterations begun
    fired,      \* the macro calls invoked in the current iteration
    last        \* what the last step did

vars == <<defines, args, functions, files, commands, result,
          memory, entry, pc_val, macros, pos, iter, fired, last>>

compilerVars == <<defines, args, functions, files, commands>>
runVars == <<memory, entry, pc_val, macros, iter, fired>>

(***************************************************************************)
(* Values and memory                                                       *)
(***************************************************************************)
U16Limit == 65536
U8Limit == 256
MemSize == 65536
CommandSize == 5
EntryPoint == 61440

Value == 0 .. (U16Limit - 1)

None == [some |-> FALSE]
Some(v) == [some |-> TRUE, v |-> v]

EmptyMap == [k \in {} |-> 0]
ZeroMemory == EmptyMap

Byte(mem, i) == IF i \in DOMAIN mem THEN mem[i] ELSE 0

\* The element of a one-element set.  The({e(r) : r \in {v}}) is e(v) with v
\* evaluated once: what a let-binding of the code is.
The(S) == CHOOSE out \in S : TRUE

Poke(mem, i, byte) ==
    The({IF byte = 0
         THEN [j \in (DOMAIN m) \ {i} |-> m[j]]
         ELSE [j \in (DOMAIN m) \cup {i} |-> IF j = i THEN byte ELSE m[j]] : m \in {mem}})

\* Mutant: the bytes most significant first.
to_be_bytes(v) == <<v \div U8Limit, v % U8Limit>>

\* u16::to_le_bytes / u16::from_le_bytes
to_le_bytes(v) == <<v % U8Limit, v \div U8Limit>>
from_le_bytes(bs) == bs[1] + U8Limit * bs[2]

\* A slice memory[i .. i + 2] exists only inside the buffer.
InBuffer(i, n) == i + n <= MemSize

\* Memory::read, where InBuffer(ptr, 2)
Read(mem, ptr) == from_le_bytes(<<Byte(mem, ptr), Byte(mem, ptr + 1)>>)

\* Memory::write, where InBuffer(ptr, 2)
Write(mem, ptr, value) ==
    LET bs == to_le_bytes(value)
    IN  Poke(Poke(mem, ptr, bs[1]), ptr + 1, bs[2])

\* Value::next_command: checked_add(5)
next_command(v) == IF v + CommandSize < U16Limit THEN Some(v + CommandSize) ELSE None

(***************************************************************************)
(* The instruction set                                                     *)
(***************************************************************************)
Op == {"Add", "Sub", "Set", "Cpy", "Lod", "Str"}

\* Mutant: the codes 1..6.
OpToU8OneBased(op) ==
    CASE op = "Add" -> 1
      [] op = "Sub" -> 2
      [] op = "Set" -> 3
      [] op = "Cpy" -> 4
      [] op = "Lod" -> 5
      [] op = "Str" -> 6

\* impl From<Op> for u8
OpToU8(op) ==
    CASE op = "Add" -> 0
      [] op = "Sub" -> 1
      [] op = "Set" -> 2
      [] op = "Cpy" -> 3
      [] op = "Lod" -> 4
      [] op = "Str" -> 5

\* Mutant: the codes 1..6, the byte 0 being no opcode.
OpTryFromU8OneBased(byte) ==
    CASE byte = 1 -> "Add"
      [] byte = 2 -> "Sub"
      [] byte = 3 -> "Set"
      [] byte = 4 -> "Cpy"
      [] byte = 5 -> "Lod"
      [] byte = 6 -> "Str"
      [] OTHER -> "InvalidOp"

\* impl TryFrom<u8> for Op
OpTryFromU8(byte) ==
    CASE byte = 0 -> "Add"
      [] byte = 1 -> "Sub"
      [] byte = 2 -> "Set"
      [] byte = 3 -> "Cpy"
      [] byte = 4 -> "Lod"
      [] byte = 5 -> "Str"
      [] OTHER -> "InvalidOp"

\* Mutant: the operands stored the other way round.
NewCommandSwapped(op, a, b) == [kind |-> "Command", op |-> op, a |-> b, b |-> a]

NewCommand(op, a, b) == [kind |-> "Command", op |-> op, a |-> a, b |-> b]

Panic(mem) == [panic |-> TRUE, mem |-> mem]
Done(mem) == [panic |-> FALSE, mem |-> mem]

\* Command::encode into the slice memory[at ..]; the assert panics on a slice
\* shorter than 5 bytes.
Encode(mem, at, c) ==
    IF ~InBuffer(at, CommandSize)
    THEN Panic(mem)
    ELSE LET m0 == Poke(mem, at, OpToU8(c.op))
             a == to_le_bytes(c.a)
             b == to_le_bytes(c.b)
             m1 == Poke(Poke(m0, at + 1, a[1]), at + 2, a[2])
         IN  Done(Poke(Poke(m1, at + 3, b[1]), at + 4, b[2]))

\* Command::decode of the slice memory[at ..]: "panic" (the assert), "invalid"
\* (Err(InvalidOp)) or "ok" with the Command.
Decode(mem, at) ==
    IF ~InBuffer(at, CommandSize)
    THEN [outcome |-> "panic", cmd |-> None]
    ELSE LET operator == OpTryFromU8(Byte(mem, at))
         IN  IF operator = "InvalidOp"
             THEN [outcome |-> "invalid", cmd |-> None]
             ELSE [outcome |-> "ok",
                   cmd |-> NewCommand(operator,
                                      from_le_bytes(<<Byte(mem, at + 1), Byte(mem, at + 2)>>),
                                      from_le_bytes(<<Byte(mem, at + 3), Byte(mem, at + 4)>>))]

\* Mutant: ADD and CPY reserved, executing one being fatal.
ExecuteReservedFatal(mem, op, a, b) ==
    CASE op = "Sub" ->
           IF InBuffer(a, 2) /\ InBuffer(b, 2)
           THEN Done(Write(mem, a, (Read(mem, a) - Read(mem, b)) % U16Limit))
           ELSE Panic(mem)
      [] op = "Set" ->
           IF InBuffer(a, 2) THEN Done(Write(mem, a, b)) ELSE Panic(mem)
      [] op = "Lod" ->
           IF InBuffer(b, 2) /\ InBuffer(Read(mem, b), 2) /\ InBuffer(a, 2)
           THEN Done(Write(mem, a, Read(mem, Read(mem, b))))
           ELSE Panic(mem)
      [] op = "Str" ->
           IF InBuffer(a, 2) /\ InBuffer(b, 2) /\ InBuffer(Read(mem, b), 2)
           THEN Done(Write(mem, Read(mem, b), Read(mem, a)))
           ELSE Panic(mem)
      [] OTHER -> Panic(mem)

\* Mutant: SUB with the operands the other way round.
SubSwapped(mem, a, b) ==
    IF InBuffer(a, 2) /\ InBuffer(b, 2)
    THEN Done(Write(mem, a, (Read(mem, b) - Read(mem, a)) % U16Limit))
    ELSE Panic(mem)

\* The arm Op::Sub of Op::execute
Sub(mem, a, b) ==
    IF InBuffer(a, 2) /\ InBuffer(b, 2)
    THEN Done(Write(mem, a, (Read(mem, a) - Read(mem, b)) % U16Limit))
    ELSE Panic(mem)

\* Mutant: SET storing the content of the cell at b.
SetDereferenced(mem, a, b) ==
    IF InBuffer(a, 2) /\ InBuffer(b, 2) THEN Done(Write(mem, a, Read(mem, b))) ELSE Panic(mem)

\* The arm Op::Set of Op::execute
Set(mem, a, b) ==
    IF InBuffer(a, 2) THEN Done(Write(mem, a, b)) ELSE Panic(mem)

\* Mutant: LOD with one indirection only.
LodDirect(mem, a, b) ==
    IF InBuffer(b, 2) /\ InBuffer(Read(mem, b), 2) /\ InBuffer(a, 2)
    THEN Done(Write(mem, a, Read(mem, b)))
    ELSE Panic(mem)

\* The arm Op::Lod of Op::execute
Lod(mem, a, b) ==
    IF InBuffer(b, 2) /\ InBuffer(Read(mem, b), 2) /\ InBuffer(a, 2)
    THEN Done(Write(mem, a, Read(mem, Read(mem, b))))
    ELSE Panic(mem)

\* Mutant: STR storing into the cell at b itself.
StrDirect(mem, a, b) ==
    IF InBuffer(a, 2) /\ InBuffer(b, 2) /\ InBuffer(Read(mem, b), 2)
    THEN Done(Write(mem, b, Read(mem, a)))
    ELSE Panic(mem)

\* The arm Op::Str of Op::execute
Str(mem, a, b) ==
    IF InBuffer(a, 2) /\ InBuffer(b, 2) /\ InBuffer(Read(mem, b), 2)
    THEN Done(Write(mem, Read(mem, b), Read(mem, a)))
    ELSE Panic(mem)

\* Op::execute.  A read or write outside the buffer panics, leaving memory as
\* it was (every arm writes last).
Execute(mem, op, a, b) ==
    CASE op = "Add" ->
           IF InBuffer(a, 2) /\ InBuffer(b, 2)
           THEN Done(Write(mem, a, (Read(mem, a) + Read(mem, b)) % U16Limit))
           ELSE Panic(mem)
      [] op = "Sub" -> Sub(mem, a, b)
      [] op = "Set" -> Set(mem, a, b)
      [] op = "Cpy" ->
           IF InBuffer(a, 2) /\ InBuffer(b, 2)
           THEN Done(Write(mem, b, Read(mem, a)))
           ELSE Panic(mem)
      [] op = "Lod" -> Lod(mem, a, b)
      [] op = "Str" -> Str(mem, a, b)

\* Memory::eval(pc): the outcome is "panic", "invalid" (Err(InvalidOp)) or "ok".
Eval(mem, pc) ==
    The({The({IF d.outcome # "ok"
              THEN [outcome |-> d.outcome, mem |-> mem, at |-> at, cmd |-> None]
              ELSE The({[outcome |-> IF e.panic THEN "panic" ELSE "ok",
                         mem |-> e.mem, at |-> at, cmd |-> d.cmd] :
                        e \in {Execute(mem, d.cmd.op, d.cmd.a, d.cmd.b)}}) :
              d \in {Decode(mem, at)}}) :
         at \in {Read(mem, pc)}})

(***************************************************************************)
(* Deferred macros (macros.rs)                                             *)
(***************************************************************************)
Meta(id, val) == [id |-> id, val |-> val]
NewMacroCall(called, metas) == [kind |-> "MacroCall", called |-> called, args |-> metas]

\* print_mem reads memory through every Meta that holds a value and writes
\* nothing; the read panics outside the buffer.
print_mem(mem, metas) ==
    IF \E k \in 1 .. Len(metas) : metas[k].val.some /\ ~InBuffer(metas[k].val.v, 2)
    THEN Panic(mem)
    ELSE Done(mem)

\* MacroCall::call
Call(mem, m) == print_mem(mem, m.args)

(***************************************************************************)
(* Compiler::run                                                           *)
(***************************************************************************)
MacrosAt(mac, at) == IF at \in DOMAIN mac THEN mac[at] ELSE <<>>

\* Mutant: a macro call indexed one Command further on.
PushMacroAfter(mac, at, i) ==
    [k \in (DOMAIN mac) \cup {at + CommandSize} |->
        IF k = at + CommandSize
        THEN Append(IF k \in DOMAIN mac THEN mac[k] ELSE <<>>, i)
        ELSE mac[k]]

\* macros.entry(pc_val).or_insert_with(Vec::new).push(m)
PushMacro(mac, at, i) ==
    [k \in (DOMAIN mac) \cup {at} |-> IF k = at THEN Append(MacrosAt(mac, at), i) ELSE mac[k]]

\* The fold of run over self.commands from index i on.
RECURSIVE LoadFrom(_, _, _, _, _)
LoadFrom(cmds, i, at, mem, mac) ==
    IF i > Len(cmds)
    THEN [panic |-> FALSE, mem |-> mem, macros |-> mac, end |-> at]
    ELSE IF cmds[i].kind = "Command"
    THEN LET e == Encode(mem, at, cmds[i])
         IN  IF e.panic \/ ~next_command(at).some
             THEN [panic |-> TRUE, mem |-> e.mem, macros |-> mac, end |-> at]
             ELSE LoadFrom(cmds, i + 1, next_command(at).v, e.mem, mac)
    ELSE LoadFrom(cmds, i + 1, at, mem, PushMacro(mac, at, i))

\* Mutant: the macro calls of an address invoked last first.
FireReversed(cmds, idxs, k, mem, done) ==
    [panic |-> FALSE, mem |-> mem,
     fired |-> [j \in 1 .. Len(idxs) |->
                   [idx |-> idxs[Len(idxs) + 1 - j], cell |-> Read(mem, 0)]]]

\* The macro calls of one iteration, in order, from the k-th on: the calls
\* that returned, and whether one panicked.
RECURSIVE FireFrom(_, _, _, _, _)
FireFrom(cmds, idxs, k, mem, done) ==
    IF k > Len(idxs)
    THEN [panic |-> FALSE, mem |-> mem, fired |-> done]
    ELSE LET c == Call(mem, cmds[idxs[k]])
         IN  IF c.panic
             THEN [panic |-> TRUE, mem |-> c.mem, fired |-> done]
             ELSE FireFrom(cmds, idxs, k + 1, c.mem,
                           Append(done, [idx |-> idxs[k], cell |-> Read(mem, 0)]))

\* run, up to the loop: the load phase.
RunLoad(e) ==
    /\ pos = "compiled"
    /\ \E l \in {LoadFrom(commands, 1, e, memory, EmptyMap)} :
           /\ memory' = l.mem
           /\ macros' = l.macros
           /\ pos' = IF l.panic THEN "panic" ELSE "loop"
           /\ last' = [step |-> "load", at |-> e, end |-> l.end]
    /\ entry' = e
    /\ pc_val' = e
    /\ iter' = 0
    /\ fired' = <<>>
    /\ UNCHANGED <<compilerVars, result>>

\* The most iterations a run makes from EntryPoint, where main would start
\* it, or from above: iter counts no further.
IterLimit == (U16Limit - 1 - EntryPoint) \div CommandSize + 1

\* One iteration, first half: the write of the counter to address 0 and the
\* macro calls indexed at pc_val.
IterBegin ==
    /\ pos = "loop"
    /\ \E f \in {FireFrom(commands, MacrosAt(macros, pc_val), 1, Write(memory, 0, pc_val), <<>>)} :
           /\ memory' = f.mem
           /\ fired' = f.fired
           /\ pos' = IF f.panic THEN "panic" ELSE "eval"
    /\ iter' = IF iter < IterLimit THEN iter + 1 ELSE iter
    /\ last' = [step |-> "begin", at |-> pc_val]
    /\ UNCHANGED <<compilerVars, result, entry, pc_val, macros>>

\* Mutant: the Command the Program compiled for the address executed, where
\* there is one, whatever the bytes now at the address.
IterEvalFromProgram ==
    /\ pos = "eval"
    /\ \E own \in {{commands[i] : i \in {j \in 1 .. Len(commands) :
                        /\ commands[j].kind = "Command"
                        /\ pc_val = entry + CommandSize *
                               Cardinality({k \in 1 .. (j - 1) : commands[k].kind = "Command"})}}} :
       \E e \in {IF own = {}
                 THEN Eval(memory, 0)
                 ELSE The({The({[outcome |-> IF x.panic THEN "panic" ELSE "ok",
                                 mem |-> x.mem, at |-> pc_val, cmd |-> c] :
                                x \in {Execute(memory, c.op, c.a, c.b)}}) : c \in own})} :
           /\ memory' = e.mem
           /\ last' = [step |-> "eval", at |-> e.at, cmd |-> e.cmd, outcome |-> e.outcome]
           /\ IF e.outcome = "panic"
              THEN pos' = "panic" /\ pc_val' = pc_val
              ELSE IF e.outcome = "invalid"
              THEN pos' = "aborted" /\ pc_val' = pc_val
              ELSE IF next_command(pc_val).some
              THEN pos' = "loop" /\ pc_val' = next_command(pc_val).v
              ELSE pos' = "panic" /\ pc_val' = pc_val
    /\ UNCHANGED <<compilerVars, result, entry, macros, iter, fired>>

\* Mutant: the next address taken from memory cell 0, as the instruction
\* left it.
IterEvalFollowsCell0 ==
    /\ pos = "eval"
    /\ \E e \in {Eval(memory, 0)} :
           /\ memory' = e.mem
           /\ last' = [step |-> "eval", at |-> e.at, cmd |-> e.cmd, outcome |-> e.outcome]
           /\ IF e.outcome = "panic"
              THEN pos' = "panic" /\ pc_val' = pc_val
              ELSE IF e.outcome = "invalid"
              THEN pos' = "aborted" /\ pc_val' = pc_val
              ELSE IF next_command(Read(e.mem, 0)).some
              THEN pos' = "loop" /\ pc_val' = next_command(Read(e.mem, 0)).v
              ELSE pos' = "panic" /\ pc_val' = pc_val
    /\ UNCHANGED <<compilerVars, result, entry, macros, iter, fired>>

\* One iteration, second half: memory.eval(0), the break on Err, and the
\* advance of pc_val.
IterEval ==
    /\ pos = "eval"
    /\ \E e \in {Eval(memory, 0)} :
           /\ memory' = e.mem
           /\ last' = [step |-> "eval", at |-> e.at, cmd |-> e.cmd, outcome |-> e.outcome]
           /\ IF e.outcome = "panic"
              THEN pos' = "panic" /\ pc_val' = pc_val
              ELSE IF e.outcome = "invalid"
              THEN pos' = "aborted" /\ pc_val' = pc_val
              ELSE IF next_command(pc_val).some
              THEN pos' = "loop" /\ pc_val' = next_command(pc_val).v
              ELSE pos' = "panic" /\ pc_val' = pc_val
    /\ UNCHANGED <<compilerVars, result, entry, macros, iter, fired>>

(***************************************************************************)
(* Numeric literals: impl FromStr for Value (main.rs)                      *)
(***************************************************************************)
NoDigit == 36

\* char::to_digit: the digit a character stands for; NoDigit for a character
\* that is a digit in no radix up to 16.
DigitOf(ch) ==
    CASE ch = "0" -> 0 [] ch = "1" -> 1 [] ch = "2" -> 2 [] ch = "3" -> 3
      [] ch = "4" -> 4 [] ch = "5" -> 5 [] ch = "6" -> 6 [] ch = "7" -> 7
      [] ch = "8" -> 8 [] ch = "9" -> 9
      [] ch \in {"a", "A"} -> 10 [] ch \in {"b", "B"} -> 11
      [] ch \in {"c", "C"} -> 12 [] ch \in {"d", "D"} -> 13
      [] ch \in {"e", "E"} -> 14 [] ch \in {"f", "F"} -> 15
      [] OTHER -> NoDigit

ParseOk(v) == [ok |-> TRUE, v |-> v]
ParseErr(kind) == [ok |-> FALSE, err |-> kind]

\* The digit loop of u16::from_str_radix from the k-th character on.
RECURSIVE Accumulate(_, _, _, _)
Accumulate(digits, k, acc, radix) ==
    IF k > Len(digits)
    THEN ParseOk(acc)
    ELSE IF DigitOf(digits[k]) >= radix
    THEN ParseErr("InvalidDigit")
    ELSE IF acc * radix + DigitOf(digits[k]) >= U16Limit
    THEN ParseErr("PosOverflow")
    ELSE Accumulate(digits, k + 1, acc * radix + DigitOf(digits[k]), radix)

\* u16::from_str_radix: no empty text, no sign alone, an optional "+".
from_str_radix(src, radix) ==
    IF Len(src) = 0
    THEN ParseErr("Empty")
    ELSE IF Len(src) = 1 /\ src[1] \in {"+", "-"}
    THEN ParseErr("InvalidDigit")
    ELSE Accumulate(IF src[1] = "+" THEN Tail(src) ELSE src, 1, 0, radix)

HasPrefix(str, c1, c2) == Len(str) >= 2 /\ str[1] = c1 /\ str[2] = c2

\* impl FromStr for Value
ParseValue(str) ==
    IF HasPrefix(str, "0", "x") THEN from_str_radix(SubSeq(str, 3, Len(str)), 16)
    ELSE IF HasPrefix(str, "0", "b") THEN from_str_radix(SubSeq(str, 3, Len(str)), 2)
    ELSE IF HasPrefix(str, "0", "o") THEN from_str_radix(SubSeq(str, 3, Len(str)), 8)
    ELSE from_str_radix(str, 10)

\* impl FromStr for Op
OpFromStr(str) ==
    CASE str = <<"A", "D", "D">> -> "Add"
      [] str = <<"S", "U", "B">> -> "Sub"
      [] str = <<"S", "E", "T">> -> "Set"
      [] str = <<"C", "P", "Y">> -> "Cpy"
      [] str = <<"L", "O", "D">> -> "Lod"
      [] str = <<"S", "T", "R">> -> "Str"
      [] OTHER -> "InvalidOp"

(***************************************************************************)
(* The compiler (compiler.rs).  A compiler state cs is the record of the   *)
(* Compiler's fields plus log, the redirect and call events of the         *)
(* operation under way.  Every operation returns [cs, res]: the state it   *)
(* leaves and "Ok", the kind of its Error, or "StackOverflow" when the     *)
(* recursion ran deeper than the host stack.                               *)
(***************************************************************************)
Returns(cs, res) == [cs |-> cs, res |-> res]

Logged(cs, event) == [cs EXCEPT !.log = Append(@, event)]

\* Mutant: defines looked up before args.
RedirectDefinesFirst(cs, value) ==
    IF value \in DOMAIN cs.defines THEN ParseOk(cs.defines[value])
    ELSE IF value \in DOMAIN cs.args THEN ParseOk(cs.args[value])
    ELSE IF ParseValue(value).ok THEN ParseValue(value)
    ELSE ParseErr("UnresolvedIdentifier")

\* Compiler::redirect
Redirect(cs, value) ==
    IF value \in DOMAIN cs.args THEN ParseOk(cs.args[value])
    ELSE IF value \in DOMAIN cs.defines THEN ParseOk(cs.defines[value])
    ELSE IF ParseValue(value).ok THEN ParseValue(value)
    ELSE ParseErr("UnresolvedIdentifier")

RedirectEvent(cs, value) ==
    [ev |-> "redirect", ident |-> value, args |-> cs.args, defines |-> cs.defines,
     out |-> Redirect(cs, value)]

\* HashMap::insert and HashMap::remove
MapInsert(map, k, v) == [j \in (DOMAIN map) \cup {k} |-> IF j = k THEN v ELSE map[j]]
MapRemove(map, k) == [j \in (DOMAIN map) \ {k} |-> map[j]]

\* Compiler::compile_define
CompileDefine(cs, define) ==
    LET cs1 == Logged(cs, RedirectEvent(cs, define.value))
        value == Redirect(cs, define.value)
    IN  IF ~value.ok
        THEN Returns(cs1, value.err)
        ELSE Returns([cs1 EXCEPT !.defines = MapInsert(@, define.name, value.v)], "Ok")

\* Mutant: a later definition replaces the registered one.
CompileFunctionOverwrite(cs, function) ==
    Returns([cs EXCEPT !.functions =
                MapInsert(@, function.name,
                          [name |-> function.name, args |-> function.args,
                           body |-> function.body])], "Ok")

\* Compiler::compile_function
CompileFunction(cs, function) ==
    IF function.name \in DOMAIN cs.functions
    THEN Returns(cs, "DuplicateFunction")
    ELSE Returns([cs EXCEPT !.functions =
                     MapInsert(@, function.name,
                               [name |-> function.name, args |-> function.args,
                                body |-> function.body])], "Ok")

\* The binding loop of compile_calling from the k-th formal on: each actual is
\* redirected and inserted under its formal, a binding it replaces going to
\* conflicts.  An actual that does not resolve returns the error at once.
RECURSIVE BindFrom(_, _, _, _, _)
BindFrom(cs, formals, actuals, k, conflicts) ==
    IF k > Len(formals)
    THEN [cs |-> cs, res |-> "Ok", conflicts |-> conflicts]
    ELSE LET value == Redirect(cs, actuals[k])
             cs1 == Logged(cs, RedirectEvent(cs, actuals[k]))
         IN  IF ~value.ok
             THEN [cs |-> cs1, res |-> value.err, conflicts |-> conflicts]
             ELSE BindFrom([cs1 EXCEPT !.args = MapInsert(@, formals[k], value.v)],
                           formals, actuals, k + 1,
                           IF formals[k] \in DOMAIN cs.args
                           THEN MapInsert(conflicts, formals[k], cs.args[formals[k]])
                           ELSE conflicts)

\* The two loops that end compile_calling: every formal removed, then every
\* conflict put back.
RECURSIVE RemoveFrom(_, _, _)
RemoveFrom(map, formals, k) ==
    IF k > Len(formals) THEN map ELSE RemoveFrom(MapRemove(map, formals[k]), formals, k + 1)

Restore(map, formals, conflicts) ==
    LET removed == RemoveFrom(map, formals, 1)
    IN  [j \in (DOMAIN removed) \cup (DOMAIN conflicts) |->
            IF j \in DOMAIN conflicts THEN conflicts[j] ELSE removed[j]]

\* Mutant: an argument that does not resolve gets the value 0.
MakeMetasZero(cs, actuals) ==
    [k \in 1 .. Len(actuals) |->
        Meta(actuals[k],
             IF Redirect(cs, actuals[k]).ok THEN Some(Redirect(cs, actuals[k]).v) ELSE Some(0))]

\* The Metas of a deferred macro call: redirect(arg).ok() per argument.
MakeMetas(cs, actuals) ==
    [k \in 1 .. Len(actuals) |->
        Meta(actuals[k],
             IF Redirect(cs, actuals[k]).ok THEN Some(Redirect(cs, actuals[k]).v) ELSE None)]

RECURSIVE LogRedirects(_, _, _)
LogRedirects(cs, actuals, k) ==
    IF k > Len(actuals) THEN cs
    ELSE LogRedirects(Logged(cs, RedirectEvent(cs, actuals[k])), actuals, k + 1)

\* macros::MACROS
print_mem_name == <<"p", "r", "i", "n", "t", "_", "m", "e", "m">>
include_name == <<"i", "n", "c", "l", "u", "d", "e">>

MACROS(name) ==
    CASE name = print_mem_name -> [kind |-> "Fn", f |-> "print_mem"]
      [] name = include_name -> [kind |-> "Preprocess", f |-> "include"]
      [] OTHER -> [kind |-> "None"]

(***************************************************************************)
(* Source items, as the parser hands them over (parser.rs)                 *)
(***************************************************************************)
Define(name, value) == [kind |-> "Define", name |-> name, value |-> value]
Function(name, formals, body) ==
    [kind |-> "Function", name |-> name, args |-> formals, body |-> body]
Calling(called, actuals) == [kind |-> "Calling", called |-> called, args |-> actuals]
Macro(called, actuals) == [kind |-> "Macro", called |-> called, args |-> actuals]

SET == <<"S", "E", "T">>
id_a == <<"a">>
id_b == <<"b">>
id_x == <<"x">>
id_q == <<"q">>
id_F == <<"F">>
id_G == <<"G">>
id_H == <<"H">>
id_R == <<"R">>
id_K == <<"K">>
id_L == <<"L">>
id_M == <<"M">>
id_N == <<"N">>
id_Z == <<"Z">>
id_lib == <<"l", "i", "b">>
id_nofile == <<"n", "o", "n", "e">>
lit_1 == <<"1">>
lit_2 == <<"2">>
lit_5 == <<"5">>
lit_7 == <<"7">>
lit_0x2A == <<"0", "x", "2", "A">>
lit_0b101 == <<"0", "b", "1", "0", "1">>
lit_0o17 == <<"0", "o", "1", "7">>
lit_99 == <<"9", "9">>

\* The source units std::fs::read_to_string finds, parsed.  lib defines x
\* and the name 7, and the functions F x (a SET and a macro call), G x x
\* (one formal twice), H a x (calling F, whose formal is H's second) and
\* R x (calling itself), K a b (two builtin calls) and L a (calling K with
\* its own formal as the second actual), M x and N x (calling each other).
FileSystem ==
    [f \in {id_lib} |->
        <<Define(id_x, lit_1),
          Define(lit_7, lit_0o17),
          Function(id_F, <<id_x>>,
                   <<Calling(SET, <<id_x, lit_7>>), Macro(print_mem_name, <<id_x, id_q>>)>>),
          Function(id_G, <<id_x, id_x>>, <<Calling(SET, <<id_x, id_x>>)>>),
          Function(id_H, <<id_a, id_x>>,
                   <<Calling(id_F, <<id_a>>), Calling(SET, <<id_a, id_x>>)>>),
          Function(id_R, <<id_x>>, <<Calling(SET, <<id_x, id_x>>), Calling(id_R, <<id_x>>)>>),
          Function(id_K, <<id_a, id_b>>,
                   <<Calling(SET, <<id_a, id_b>>), Calling(SET, <<id_b, id_a>>)>>),
          Function(id_L, <<id_a>>, <<Calling(id_K, <<lit_5, id_a>>)>>),
          Function(id_M, <<id_x>>, <<Calling(id_N, <<id_x>>)>>),
          Function(id_N, <<id_x>>, <<Calling(SET, <<id_x, id_x>>), Calling(id_M, <<id_x>>)>>)>>]

(***************************************************************************)
(* compile_calling, compile_macro, compile_stmt, compile_item, compile_file *)
(* and the include macro call one another; depth is the number of stack    *)
(* frames left.                                                            *)
(***************************************************************************)
RECURSIVE CompileCalling(_, _, _)
RECURSIVE CompileMacro(_, _, _)
RECURSIVE CompileStmts(_, _, _, _)
RECURSIVE CompileItems(_, _, _, _)
RECURSIVE Include(_, _, _, _)

\* Mutant: the expansion cut off without an error where the frames end.
ExhaustedReturns(cs) == Returns(cs, "Ok")

\* Where the recursion of compile_calling, compile_stmt, compile_macro and
\* include runs out of stack frames: the process ends there.
Exhausted(cs) == Returns(cs, "StackOverflow")

\* Mutant: only too few actuals are an arity error.
TooFewActuals(n, actuals) == Len(actuals) < n

\* The arity tests of compile_calling: calling.args.len() != 2 for a builtin,
\* function.args.len() != calling.args.len() for a function.
WrongArity(n, actuals) == Len(actuals) # n

\* Compiler::compile_calling
CompileCalling(cs, calling, depth) ==
    IF depth = 0
    THEN Exhausted(cs)
    ELSE IF OpFromStr(calling.called) # "InvalidOp"
    THEN IF WrongArity(2, calling.args)
         THEN Returns(cs, "ArityMismatch")
         ELSE LET a == Redirect(cs, calling.args[1])
                  b == Redirect(cs, calling.args[2])
                  cs1 == Logged(cs, RedirectEvent(cs, calling.args[1]))
                  cs2 == Logged(cs1, RedirectEvent(cs, calling.args[2]))
              IN  IF ~a.ok THEN Returns(cs1, a.err)
                  ELSE IF ~b.ok THEN Returns(cs2, b.err)
                  ELSE Returns([cs2 EXCEPT !.commands =
                                   Append(@, NewCommand(OpFromStr(calling.called), a.v, b.v))],
                               "Ok")
    ELSE IF calling.called \in DOMAIN cs.functions
    THEN LET function == cs.functions[calling.called]
         IN  IF WrongArity(Len(function.args), calling.args)
             THEN Returns(cs, "ArityMismatch")
             ELSE The({
                    IF bound.res # "Ok" THEN Returns(bound.cs, bound.res)
                    ELSE The({
                        IF body.res # "Ok" THEN body
                        ELSE The({
                            Returns(Logged([body.cs EXCEPT !.args = restored],
                                           [ev |-> "call", called |-> calling.called,
                                            formals |-> function.args,
                                            body |-> function.body,
                                            actuals |-> calling.args,
                                            defines |-> cs.defines,
                                            bound |-> bound.cs.args,
                                            emitted |-> Len(cs.commands),
                                            commands |-> body.cs.commands,
                                            before |-> cs.args, after |-> restored]),
                                    "Ok")
                            : restored \in
                                {Restore(body.cs.args, function.args, bound.conflicts)}})
                        : body \in {CompileStmts(bound.cs, function.body, 1, depth - 1)}})
                    : bound \in {BindFrom(cs, function.args, calling.args, 1, EmptyMap)}})
    ELSE Returns(cs, "UndefinedFunction")

\* Compiler::compile_macro
CompileMacro(cs, macro, depth) ==
    IF depth = 0
    THEN Exhausted(cs)
    ELSE IF MACROS(macro.called).kind = "None"
    THEN Returns(cs, "UndefinedMacro")
    ELSE IF MACROS(macro.called).kind = "Preprocess"
    THEN Include(cs, macro.args, 1, depth - 1)
    ELSE The({
             Returns(Logged([LogRedirects(cs, macro.args, 1) EXCEPT !.commands = emitted],
                            [ev |-> "macro", called |-> macro.called,
                             actuals |-> macro.args,
                             args |-> cs.args, defines |-> cs.defines,
                             emitted |-> Len(cs.commands), commands |-> emitted]),
                     "Ok")
             : emitted \in
                 {Append(cs.commands,
                         NewMacroCall(MACROS(macro.called).f, MakeMetas(cs, macro.args)))}})

\* Compiler::compile_stmt over a function body from the k-th statement on.
CompileStmts(cs, body, k, depth) ==
    IF k > Len(body)
    THEN Returns(cs, "Ok")
    ELSE The({IF r.res # "Ok" THEN r ELSE CompileStmts(r.cs, body, k + 1, depth)
              : r \in {IF body[k].kind = "Calling"
                       THEN CompileCalling(cs, body[k], depth)
                       ELSE CompileMacro(cs, body[k], depth)}})

\* Compiler::compile_item
CompileItem(cs, item, depth) ==
    CASE item.kind = "Define" -> CompileDefine(cs, item)
      [] item.kind = "Function" -> CompileFunction(cs, item)
      [] item.kind = "Calling" -> CompileCalling(cs, item, depth)
      [] item.kind = "Macro" -> CompileMacro(cs, item, depth)

\* The loop of Compiler::compile_file over the items from the k-th on.
CompileItems(cs, items, k, depth) ==
    IF k > Len(items)
    THEN Returns(cs, "Ok")
    ELSE The({IF r.res # "Ok" THEN r ELSE CompileItems(r.cs, items, k + 1, depth)
              : r \in {CompileItem(cs, items[k], depth)}})

\* Compiler::compile_file of the source unit called name
CompileFile(cs, name, depth) ==
    CompileItems([cs EXCEPT !.files = @ \cup {name}], FileSystem[name], 1, depth)

\* macros::include from the k-th file name on.
Include(cs, names, k, depth) ==
    IF k > Len(names)
    THEN Returns(cs, "Ok")
    ELSE IF names[k] \notin DOMAIN FileSystem
    THEN Returns(cs, "ReadFailed")
    ELSE IF depth = 0
    THEN Exhausted(cs)
    ELSE The({IF r.res # "Ok" THEN r ELSE Include(r.cs, names, k + 1, depth)
              : r \in {CompileFile(cs, names[k], depth - 1)}})

(***************************************************************************)
(* The compiler as a state machine: a fresh Compiler, then any of its      *)
(* compile operations on items of a bounded vocabulary.                    *)
(***************************************************************************)
MaxItems == 3
MaxDepth == 5

Defines == {Define(id_x, lit_2), Define(id_q, id_x)}

Functions == {
    Function(id_F, <<id_a>>, <<Calling(SET, <<id_a, id_a>>)>>),
    Function(SET, <<id_a>>, <<Calling(SET, <<id_a, id_a>>)>>)
}

Callings == {
    Calling(SET, <<id_x, lit_0x2A>>),
    Calling(SET, <<lit_7, lit_0b101>>),
    Calling(SET, <<lit_99, id_q>>),
    Calling(SET, <<lit_1>>),
    Calling(id_F, <<lit_5>>),
    Calling(id_F, <<lit_1, lit_2>>),
    Calling(id_G, <<lit_1, lit_2>>),
    Calling(id_H, <<lit_5, lit_7>>),
    Calling(id_H, <<lit_5, id_q>>),
    Calling(id_R, <<lit_1>>),
    Calling(id_K, <<lit_1, lit_2>>),
    Calling(id_K, <<lit_7, lit_2>>),
    Calling(id_L, <<lit_1>>),
    Calling(id_M, <<lit_1>>),
    Calling(id_Z, <<lit_1>>)
}

Macros == {
    Macro(include_name, <<id_lib>>),
    Macro(include_name, <<id_nofile>>),
    Macro(print_mem_name, <<id_x, id_q>>),
    Macro(id_Z, <<>>)
}

CompilerState ==
    [defines |-> defines, args |-> args, functions |-> functions, files |-> files,
     commands |-> commands, log |-> <<>>]

\* What an operation returned becomes the Compiler's fields; a stack overflow
\* ends the process.
Compiled(op, item, r) ==
    /\ pos = "compiling"
    /\ iter < MaxItems
    /\ defines' = r.cs.defines
    /\ args' = r.cs.args
    /\ functions' = r.cs.functions
    /\ files' = r.cs.files
    /\ commands' = r.cs.commands
    /\ result' = r.res
    /\ last' = [step |-> op, item |-> item, log |-> r.cs.log,
                before |-> [args |-> args, defines |-> defines, functions |-> functions,
                            commands |-> commands]]
    /\ pos' = IF r.res = "StackOverflow" THEN "crashed" ELSE "compiling"
    /\ iter' = iter + 1
    /\ UNCHANGED <<memory, entry, pc_val, macros, fired>>

compile_define(define) ==
    \E r \in {CompileDefine(CompilerState, define)} :
        Compiled("compile_define", define, r)

compile_function(function) ==
    \E r \in {CompileFunction(CompilerState, function)} :
        Compiled("compile_function", function, r)

compile_calling(calling) ==
    \E r \in {CompileCalling(CompilerState, calling, MaxDepth)} :
        Compiled("compile_calling", calling, r)

compile_macro(macro) ==
    \E r \in {CompileMacro(CompilerState, macro, MaxDepth)} :
        Compiled("compile_macro", macro, r)

CompileInit ==
    /\ defines = EmptyMap
    /\ args = EmptyMap
    /\ functions = EmptyMap
    /\ files = {}
    /\ commands = <<>>
    /\ result = "Ok"
    /\ memory = ZeroMemory
    /\ entry = 0
    /\ pc_val = 0
    /\ macros = EmptyMap
    /\ pos = "compiling"
    /\ iter = 0
    /\ fired = <<>>
    /\ last = [step |-> "new"]

CompileNext ==
    \/ \E define \in Defines : compile_define(define)
    \/ \E function \in Functions : compile_function(function)
    \/ \E calling \in Callings : compile_calling(calling)
    \/ \E macro \in Macros : compile_macro(macro)

CompileSpec == CompileInit /\ [][CompileNext]_vars

(***************************************************************************)
(* Claims about the compiler                                               *)
(***************************************************************************)
\* The Compiler as the last compile operation found it.
Before == last.before

CallingDone == "step" \in DOMAIN last /\ last.step = "compile_calling"

Mnemonics ==
    {<<"A", "D", "D">>, <<"S", "U", "B">>, <<"S", "E", "T">>,
     <<"C", "P", "Y">>, <<"L", "O", "D">>, <<"S", "T", "R">>}

\* The last operation failed with the error kind, the Program and the args map
\* being what they were.
FailedClean(kind) == result = kind /\ commands = Before.commands /\ args = Before.args

\* C11: compile_calling fails with the arity error, appending nothing to the
\* Program and binding nothing in args, when a builtin mnemonic is called with
\* other than 2 actuals or (the name being no mnemonic) a registered function
\* is called with a number of actuals other than its number of formals; a name
\* that is neither fails with UndefinedFunction.
C11_ArityAndUndefined ==
    CallingDone =>
        LET called == last.item.called
            n == Len(last.item.args)
        IN  IF called \in Mnemonics
            THEN n # 2 => FailedClean("ArityMismatch")
            ELSE IF called \in DOMAIN Before.functions
            THEN n # Len(Before.functions[called].args) => FailedClean("ArityMismatch")
            ELSE FailedClean("UndefinedFunction")

\* A registered 1-formal function called with 2 actuals, the Program holding a
\* Command already.
C11_Witness ==
    /\ CallingDone
    /\ last.item = Calling(id_F, <<lit_1, lit_2>>)
    /\ id_F \in DOMAIN Before.functions
    /\ Len(Before.functions[id_F].args) = 1
    /\ Len(commands) >= 1
    /\ FailedClean("ArityMismatch")

FunctionDone == "step" \in DOMAIN last /\ last.step = "compile_function"

\* C12: compile_function on a name already registered fails with the
\* duplicate-function error and leaves the registry as it was; on a new name
\* it succeeds and the registry gains exactly that name with the formals and
\* the body as given.  Either way nothing is appended to the Program.
C12_FunctionRegisteredOnce ==
    FunctionDone =>
        LET f == last.item
        IN  /\ commands = Before.commands
            /\ IF f.name \in DOMAIN Before.functions
               THEN result = "DuplicateFunction" /\ functions = Before.functions
               ELSE /\ result = "Ok"
                    /\ DOMAIN functions = (DOMAIN Before.functions) \cup {f.name}
                    /\ \A g \in DOMAIN Before.functions : functions[g] = Before.functions[g]
                    /\ functions[f.name].args = f.args
                    /\ functions[f.name].body = f.body

\* F a = [...] compiled where the included unit registered F x = [...]: the
\* first definition stays.
C12_Witness ==
    /\ FunctionDone
    /\ last.item.name = id_F
    /\ last.item.args = <<id_a>>
    /\ result = "DuplicateFunction"
    /\ functions[id_F].args = <<id_x>>
    /\ Len(functions[id_F].body) = 2

\* What the last compile operation did, in order: the redirects it made and
\* the function calls it finished.
Log == IF "log" \in DOMAIN last THEN last.log ELSE <<>>

Calls == {Log[k] : k \in {j \in DOMAIN Log : Log[j].ev = "call"}}

Redirects == {Log[k] : k \in {j \in DOMAIN Log : Log[j].ev = "redirect"}}

\* C7 (as claimed): when compile_calling of a function finishes successfully,
\* at any nesting depth and for any formal parameter list, the args map is
\* exactly the args map that held before the call.
C7_ArgsRestoredAfterCall == \A c \in Calls : c.after = c.before

\* The registered functions the body of g calls: the names of its Calling
\* statements that are no mnemonic.
Callees(fs, g) ==
    {fs[g].body[j].called :
        j \in {i \in 1 .. Len(fs[g].body) : fs[g].body[i].kind = "Calling"}}
      \cap ((DOMAIN fs) \ Mnemonics)

\* The functions reached from those of S by chains of at most n calls.
RECURSIVE ReachFrom(_, _, _)
ReachFrom(fs, S, n) ==
    IF n = 0 THEN S
    ELSE ReachFrom(fs, S \cup UNION {Callees(fs, g) : g \in S}, n - 1)

\* f is reachable from its own body through a chain of function calls.
Recursive(fs, f) ==
    /\ f \in (DOMAIN fs) \ Mnemonics
    /\ f \in ReachFrom(fs, Callees(fs, f), Cardinality(DOMAIN fs))

\* C22: a call to a function that is reachable from its own body through a
\* chain of function calls never completes successfully, at the top level or
\* nested: it returns an error or expands until the process runs out of
\* stack.
C22_RecursiveCallNeverCompletes ==
    /\ (CallingDone /\ Recursive(Before.functions, last.item.called)) => result # "Ok"
    /\ \A c \in Calls : ~Recursive(functions, c.called)

\* M 1, where M x = [N x] and N x = [SET x x; M x]: Commands appended level
\* after level until the stack ends.
C22_Witness ==
    /\ CallingDone
    /\ last.item = Calling(id_M, <<lit_1>>)
    /\ Recursive(Before.functions, id_M)
    /\ Callees(Before.functions, id_M) = {id_N}
    /\ result = "StackOverflow"
    /\ pos = "crashed"
    /\ Len(commands) >= Len(Before.commands) + 2

\* C25 (as claimed): when compile_calling of a registered function, called
\* with as many actuals as it has formals, returns an error, the args map
\* is the args map that held before the call.
C25_ArgsRestoredAfterFailedCall ==
    (/\ CallingDone
     /\ last.item.called \in (DOMAIN Before.functions) \ Mnemonics
     /\ Len(last.item.args) = Len(Before.functions[last.item.called].args)
     /\ result \notin {"Ok", "StackOverflow"})
        => args = Before.args

MacroDone == "step" \in DOMAIN last /\ last.step = "compile_macro"

DeferredMacros == {Log[k] : k \in {j \in DOMAIN Log : Log[j].ev = "macro"}}

\* The value of an actual of a macro call in the environment at its compile
\* position, absent when redirect gives none.
MetaValue(m, actual) ==
    IF Redirect([args |-> m.args, defines |-> m.defines], actual).ok
    THEN Some(Redirect([args |-> m.args, defines |-> m.defines], actual).v)
    ELSE None

\* C21: compiling a deferred macro, at the top level or in a function body,
\* appends exactly one deferred macro call and no Command: one Meta per actual
\* in order, the value present when redirect resolves the actual in the
\* environment at that position and absent otherwise; at the top level it
\* never fails, and an unknown macro name fails with UndefinedMacro, the
\* Program staying as it was.
C21_DeferredMacroTolerant ==
    /\ \A m \in DeferredMacros :
           /\ Len(m.commands) = m.emitted + 1
           /\ SubSeq(m.commands, 1, m.emitted) = SubSeq(commands, 1, m.emitted)
           /\ m.commands[m.emitted + 1].kind = "MacroCall"
           /\ Len(m.commands[m.emitted + 1].args) = Len(m.actuals)
           /\ \A k \in 1 .. Len(m.actuals) :
                  /\ m.commands[m.emitted + 1].args[k].id = m.actuals[k]
                  /\ m.commands[m.emitted + 1].args[k].val = MetaValue(m, m.actuals[k])
    /\ (MacroDone /\ last.item.called = print_mem_name)
         => /\ result = "Ok"
            /\ Len(commands) = Len(Before.commands) + 1
            /\ \E m \in DeferredMacros :
                   m.emitted = Len(Before.commands) /\ m.commands = commands
    /\ (MacroDone /\ last.item.called \notin {print_mem_name, include_name})
         => (result = "UndefinedMacro" /\ commands = Before.commands)

\* #print_mem x q compiled in the body of F x called as F 5: x present with
\* the value 5, q absent.
C21_Witness ==
    \E m \in DeferredMacros :
        /\ m.actuals = <<id_x, id_q>>
        /\ id_x \in DOMAIN m.args
        /\ m.args[id_x] = 5
        /\ m.commands[m.emitted + 1].args[1].val = Some(5)
        /\ m.commands[m.emitted + 1].args[2].val = None
        /\ result = "Ok"

\* The environment a finished call was made in: the caller's args before any
\* formal of the call was bound, and the defines.
CallerEnv(c) == [args |-> c.before, defines |-> c.defines]

\* The environment its body was compiled in: the args once the formals of the
\* call were bound to the values of its actuals.
CalleeEnv(c) == [args |-> c.bound, defines |-> c.defines]

\* The positions of the formal list that name t.
FormalAt(c, t) == {k \in 1 .. Len(c.formals) : c.formals[k] = t}

\* The actual given for the formal t (the last one of that name), or t itself
\* when it is no formal.
ActualFor(c, t) ==
    IF FormalAt(c, t) = {} THEN t
    ELSE c.actuals[CHOOSE k \in FormalAt(c, t) : \A j \in FormalAt(c, t) : j <= k]

BuiltinOnly(body) ==
    \A j \in 1 .. Len(body) :
        body[j].kind = "Calling" /\ body[j].called \in Mnemonics /\ Len(body[j].args) = 2

\* The Commands a call appended to the Program.
Appended(c) == SubSeq(c.commands, c.emitted + 1, Len(c.commands))

\* A finished call of a function whose body is n builtin calls appended n
\* Commands, in body order, the operands of each being the values this call
\* site bound to the formals it names, and left what the Program held before
\* it as it was.
InlinedAt(c) ==
    BuiltinOnly(c.body) =>
        /\ SubSeq(c.commands, 1, c.emitted) = SubSeq(commands, 1, c.emitted)
        /\ Len(Appended(c)) = Len(c.body)
        /\ \A j \in 1 .. Len(c.body) :
               LET a == Redirect(CalleeEnv(c), c.body[j].args[1])
                   b == Redirect(CalleeEnv(c), c.body[j].args[2])
               IN  /\ a.ok
                   /\ b.ok
                   /\ Appended(c)[j].kind = "Command"
                   /\ OpToU8(Appended(c)[j].op) = OpToU8(OpFromStr(c.body[j].called))
                   /\ Appended(c)[j].a = a.v
                   /\ Appended(c)[j].b = b.v

C18_ActualsResolvedInCallerEnv ==
    \A c \in Calls :
        \A t \in {c.formals[k] : k \in 1 .. Len(c.formals)} :
            /\ Redirect(CallerEnv(c), ActualFor(c, t)).ok
            /\ c.bound[t] = Redirect(CallerEnv(c), ActualFor(c, t)).v

\* The value the text of an identifier of the vocabulary has as a numeric
\* literal, None when it is not one.
LiteralOf(ident) ==
    CASE ident = lit_1 -> Some(1)
      [] ident = lit_2 -> Some(2)
      [] ident = lit_5 -> Some(5)
      [] ident = lit_7 -> Some(7)
      [] ident = lit_0x2A -> Some(42)
      [] ident = lit_0b101 -> Some(5)
      [] ident = lit_0o17 -> Some(15)
      [] ident = lit_99 -> Some(99)
      [] OTHER -> None

\* C10: redirect resolves an identifier in the order args, defines, numeric
\* literal: a name bound in args gives the args value even when defines binds
\* it too, a name bound only in defines gives the defines value even when its
\* text is a numeric literal, and a name bound in neither gives the value of
\* its text as a literal, failing with UnresolvedIdentifier when it has none.
C10_RedirectPriority ==
    \A e \in Redirects :
        IF e.ident \in DOMAIN e.args
        THEN e.out = ParseOk(e.args[e.ident])
        ELSE IF e.ident \in DOMAIN e.defines
        THEN e.out = ParseOk(e.defines[e.ident])
        ELSE IF LiteralOf(e.ident).some
        THEN e.out = ParseOk(LiteralOf(e.ident).v)
        ELSE e.out = ParseErr("UnresolvedIdentifier")

\* One operation that redirected a name bound in args and, to another value,
\* in defines; a name bound only in defines whose text is a literal of another
\* value; a literal bound nowhere; and a name that is neither.
C10_Witness ==
    /\ \E e \in Redirects : /\ e.ident \in (DOMAIN e.args) \cap (DOMAIN e.defines)
                            /\ e.args[e.ident] # e.defines[e.ident]
                            /\ e.out = ParseOk(e.args[e.ident])
    /\ \E e \in Redirects : /\ e.ident \in (DOMAIN e.defines) \ (DOMAIN e.args)
                            /\ LiteralOf(e.ident).some
                            /\ LiteralOf(e.ident).v # e.defines[e.ident]
                            /\ e.out = ParseOk(e.defines[e.ident])
    /\ \E e \in Redirects : /\ e.ident \notin (DOMAIN e.defines) \cup (DOMAIN e.args)
                            /\ e.ident = lit_5
                            /\ e.out = ParseOk(5)
    /\ \E e \in Redirects : /\ e.ident \notin (DOMAIN e.defines) \cup (DOMAIN e.args)
                            /\ ~LiteralOf(e.ident).some
                            /\ e.out = ParseErr("UnresolvedIdentifier")

(***************************************************************************)
(* The run of a compiled Program                                           *)
(***************************************************************************)
\* Entry addresses: the conventional one, and two from which the counter
\* reaches the end of the buffer after one instruction.
Entries == {EntryPoint, U16Limit - 10, U16Limit - 9}

x10 == <<"0", "x", "1", "0">>

\* What a Program is made of: Commands and deferred macro calls.
Menu == {
    NewCommand("Set", 16, 7),
    NewCommand("Set", 18, 0),
    NewCommand("Set", 0, EntryPoint - CommandSize),
    NewCommand("Add", 16, 16),
    NewCommand("Cpy", 16, 18),
    NewCommand("Set", U16Limit - CommandSize, U16Limit - 1),
    NewCommand("Set", EntryPoint + CommandSize + 1, 2),
    NewCommand("Set", EntryPoint + CommandSize - 1, U16Limit - U8Limit),
    NewMacroCall("print_mem", <<Meta(x10, Some(16))>>)
}

MaxProgram == 2

Programs == UNION {[1 .. n -> Menu] : n \in 0 .. MaxProgram}

RunInit ==
    /\ defines = EmptyMap
    /\ args = EmptyMap
    /\ functions = EmptyMap
    /\ files = {}
    /\ commands \in Programs
    /\ result = "Ok"
    /\ memory = ZeroMemory
    /\ entry = 0
    /\ pc_val = 0
    /\ macros = EmptyMap
    /\ pos = "compiled"
    /\ iter = 0
    /\ fired = <<>>
    /\ last = [step |-> "new"]

RunNext ==
    \/ \E e \in Entries : RunLoad(e)
    \/ IterBegin
    \/ IterEval

RunSpec == RunInit /\ [][RunNext]_vars

(***************************************************************************)
(* Claims about the run                                                    *)
(***************************************************************************)
\* The address an iteration fetches from is the content of the cell at
\* address 0 when eval runs.
FetchAddress(mem) == Read(mem, 0)

\* The last instruction executed left in the counter cell something else than
\* the address it was fetched from: it stored into address 0.
StoredIntoCell0 == last.step = "eval" /\ last.outcome = "ok" /\ Read(memory, 0) # last.at

C2_MacroFiresOnEveryVisit ==
    [][(pos = "loop" /\ last.step = "eval" /\ pos' = "eval")
         => [k \in 1 .. Len(fired') |-> fired'[k].idx]
              = MacrosAt(macros, Read(memory, 0) + CommandSize)]_vars

\* The programs of C3: only SET commands, every target cell outside the
\* counter cell and outside the encoded program, run from the conventional
\* entry address.
SetOutside(c) ==
    /\ c.kind = "Command"
    /\ c.op = "Set"
    /\ c.a >= 2
    /\ InBuffer(c.a, 2)
    /\ \/ c.a + 2 <= EntryPoint
       \/ c.a >= EntryPoint + CommandSize * Len(commands)

C3Run ==
    /\ pos # "compiled"
    /\ entry = EntryPoint
    /\ Len(commands) >= 1
    /\ \A k \in 1 .. Len(commands) : SetOutside(commands[k])

\* The value of the last SET of the Program to target t.
LastSet(t) ==
    LET ks == {k \in 1 .. Len(commands) : commands[k].a = t}
    IN  commands[CHOOSE k \in ks : \A j \in ks : j <= k].b

InOrder ==
    (last.step = "eval" /\ iter <= Len(commands))
      => /\ last.outcome = "ok"
         /\ last.cmd = commands[iter]
         /\ last.at = entry + CommandSize * (iter - 1)

TargetsHold ==
    \A k \in 1 .. Len(commands) : Read(memory, commands[k].a) = LastSet(commands[k].a)

AfterProgramUntouched ==
    \A k \in 1 .. Len(commands) :
        \/ commands[k].a + 2 <= entry + CommandSize * Len(commands)
        \/ commands[k].a >= entry + CommandSize * (Len(commands) + 1)

Fetched == Decode(memory, FetchAddress(memory))

Reserved(op) == op \in {"Add", "Cpy"}

\* Every byte outside the 16-bit cell at address t is the same in m1 and m2.
SameOutsideCell(m1, m2, t) ==
    \A i \in (DOMAIN m1) \cup (DOMAIN m2) : i \in {t, t + 1} \/ Byte(m1, i) = Byte(m2, i)

\* C6 (as claimed): executing ADD or CPY is fatal: it changes no memory and
\* the run does not go on to the next instruction.
C6_ReservedOpcodeIsFatal ==
    [][(pos = "eval" /\ Fetched.outcome = "ok" /\ Reserved(Fetched.cmd.op))
         => (pos' = "panic" /\ memory' = memory)]_vars

\* C6 (amended): ADD a b and CPY a b complete as normal instructions: ADD sets
\* the cell at a to (mem[a] + mem[b]) mod 2^16, CPY sets the cell at b to
\* mem[a], no other byte changes, and the run goes on to the next instruction
\* (both cells being inside the buffer and the counter not at its last value).
C6_ReservedOpcodesExecute ==
    [][(/\ pos = "eval"
        /\ Fetched.outcome = "ok"
        /\ Reserved(Fetched.cmd.op)
        /\ InBuffer(Fetched.cmd.a, 2)
        /\ InBuffer(Fetched.cmd.b, 2))
         => LET a == Fetched.cmd.a
                b == Fetched.cmd.b
            IN  /\ Fetched.cmd.op = "Add"
                     => /\ Read(memory', a) = (Read(memory, a) + Read(memory, b)) % U16Limit
                        /\ SameOutsideCell(memory, memory', a)
                /\ Fetched.cmd.op = "Cpy"
                     => /\ Read(memory', b) = Read(memory, a)
                        /\ SameOutsideCell(memory, memory', b)
                /\ pos' = IF pc_val + CommandSize < U16Limit THEN "loop" ELSE "panic"
                /\ pc_val + CommandSize < U16Limit => pc_val' = pc_val + CommandSize]_vars

C6_Witness ==
    /\ last.step = "eval"
    /\ last.outcome = "ok"
    /\ last.cmd = NewCommand("Add", 16, 16)
    /\ Read(memory, 16) = 14
    /\ pos = "loop"

\* C8 (as claimed): the counter only ever advances by 5 and never wraps, and
\* an iteration whose counter is 0xFFFC or higher ends in the clean Aborted.
C8_EndOfBufferAborts ==
    [][/\ (pos = "eval" /\ pos' = "loop") => pc_val' = pc_val + CommandSize
       /\ (pos = "eval" /\ FetchAddress(memory) > MemSize - CommandSize)
            => pos' = "aborted"]_vars

\* C9 (as claimed): an iteration ends the loop cleanly exactly when the byte
\* at the counter's address is no opcode, and then it changes no memory.
C9_AbortedIffInvalidOpcode ==
    [][pos = "eval"
         => /\ OpTryFromU8(Byte(memory, FetchAddress(memory))) = "InvalidOp"
                 => (pos' = "aborted" /\ memory' = memory)
            /\ pos' = "aborted"
                 => OpTryFromU8(Byte(memory, FetchAddress(memory))) = "InvalidOp"]_vars

\* The positions of the Program that hold Commands, and how many of them come
\* before position i.
CommandAt == {i \in 1 .. Len(commands) : commands[i].kind = "Command"}

CommandsBefore(i) == Cardinality({j \in CommandAt : j < i})

LoadStep == pos = "compiled" /\ pos' = "loop"

\* C19: the load of run encodes the k-th Command (Commands only, from 0) into
\* the bytes entry + 5k .. entry + 5k + 4 and writes no other byte; a macro
\* call takes no bytes and is indexed at the address of the next Command
\* after it, which is entry + 5n when none follows.
C19_LoadLayout ==
    [][LoadStep =>
         /\ \A i \in CommandAt :
                LET at == entry' + CommandSize * CommandsBefore(i)
                IN  /\ Byte(memory', at) = OpToU8(commands[i].op)
                    /\ Byte(memory', at + 1) = commands[i].a % U8Limit
                    /\ Byte(memory', at + 2) = commands[i].a \div U8Limit
                    /\ Byte(memory', at + 3) = commands[i].b % U8Limit
                    /\ Byte(memory', at + 4) = commands[i].b \div U8Limit
         /\ \A j \in (DOMAIN memory) \cup (DOMAIN memory') :
                \/ Byte(memory', j) = Byte(memory, j)
                \/ /\ j >= entry'
                   /\ j < entry' + CommandSize * Cardinality(CommandAt)
         /\ \A i \in (1 .. Len(commands)) \ CommandAt :
                \E k \in DOMAIN MacrosAt(macros', entry' + CommandSize * CommandsBefore(i)) :
                    MacrosAt(macros', entry' + CommandSize * CommandsBefore(i))[k] = i
         /\ \A at \in DOMAIN macros' :
                \A k \in DOMAIN macros'[at] :
                    /\ macros'[at][k] \notin CommandAt
                    /\ at = entry' + CommandSize * CommandsBefore(macros'[at][k])]_vars

\* SET 0x10 7 and then a macro call, loaded at 0xF000: five bytes at 0xF000
\* and the macro call indexed at 0xF005.
C19_Witness ==
    /\ pos = "loop"
    /\ last.step = "load"
    /\ entry = EntryPoint
    /\ Len(commands) = 2
    /\ commands[1] = NewCommand("Set", 16, 7)
    /\ commands[2].kind = "MacroCall"
    /\ DOMAIN macros = {EntryPoint + CommandSize}
    /\ macros[EntryPoint + CommandSize] = <<2>>
    /\ DOMAIN memory = {EntryPoint, EntryPoint + 1, EntryPoint + 3}
    /\ memory[EntryPoint] = 2 /\ memory[EntryPoint + 1] = 16 /\ memory[EntryPoint + 3] = 7

\* C20: in one iteration of the loop every macro call indexed at the current
\* program counter is invoked, in the order of the Program, the cell at
\* address 0 holding that address at each invocation; the instruction at that
\* address is not executed in that step but in the next, in which no macro
\* call is invoked.
C20_MacrosBeforeInstruction ==
    [][/\ (pos = "loop" /\ pos' = "eval")
            => /\ [k \in 1 .. Len(fired') |-> fired'[k].idx] = MacrosAt(macros, pc_val)
               /\ \A k \in 1 .. Len(fired') :
                      /\ fired'[k].cell = pc_val
                      /\ commands[fired'[k].idx].kind = "MacroCall"
                      /\ k > 1 => fired'[k - 1].idx < fired'[k].idx
               /\ SameOutsideCell(memory, memory', 0)
               /\ FetchAddress(memory') = pc_val
       /\ pos = "eval" => (fired' = fired /\ last'.step = "eval" /\ last'.at = pc_val)]_vars

\* Two macro calls indexed at the entry address, both invoked, in order, in
\* the first iteration, before the SET that follows them.
C20_Witness ==
    /\ pos = "eval"
    /\ Len(commands) = 2
    /\ commands[1].kind = "MacroCall"
    /\ commands[2].kind = "MacroCall"
    /\ fired = <<[idx |-> 1, cell |-> pc_val], [idx |-> 2, cell |-> pc_val]>>
    /\ pc_val = entry

\* The Command the five bytes at address at spell.
CommandInBytes(mem, at) ==
    [kind |-> "Command",
     op |-> CHOOSE op \in Op : OpToU8(op) = Byte(mem, at),
     a |-> Byte(mem, at + 1) + U8Limit * Byte(mem, at + 2),
     b |-> Byte(mem, at + 3) + U8Limit * Byte(mem, at + 4)]

\* C23: the instruction an iteration executes is decoded from the bytes
\* memory holds at the program counter's address when it is fetched, whatever
\* the Program had there: a valid opcode byte gives the Command those five
\* bytes spell, which is executed, and an invalid one ends the run cleanly.
C23_FetchFromMemory ==
    [][(pos = "eval" /\ InBuffer(pc_val, CommandSize))
         => /\ last'.step = "eval"
            /\ last'.at = pc_val
            /\ IF \E op \in Op : OpToU8(op) = Byte(memory, pc_val)
               THEN /\ last'.cmd = CommandInBytes(memory, pc_val)
                    /\ pos' # "aborted"
                    /\ Execute(memory, last'.cmd.op, last'.cmd.a, last'.cmd.b).mem = memory'
               ELSE pos' = "aborted" /\ memory' = memory]_vars

\* The Command that was compiled for the address the last instruction was
\* fetched from.
CompiledAt(at) ==
    {commands[i] : i \in {j \in CommandAt : entry + CommandSize * CommandsBefore(j) = at}}

\* SET 0xF006 2 and then SET 0x10 7, loaded at 0xF000: the first overwrites
\* operand a of the second, which runs as SET 2 7.
C23_Witness ==
    /\ last.step = "eval"
    /\ entry = EntryPoint
    /\ last.outcome = "ok"
    /\ CompiledAt(last.at) = {NewCommand("Set", 16, 7)}
    /\ last.cmd = NewCommand("Set", 2, 7)
    /\ Read(memory, 2) = 7
    /\ Read(memory, 16) = 0

\* Memory contents a caller of Compiler::run may hand over: all zero, a
\* stored jump back to the entry address behind a one-command Program, and
\* an invalid opcode byte two commands in.
RunMemories == {
    ZeroMemory,
    Encode(ZeroMemory, EntryPoint + CommandSize, NewCommand("Set", 0, EntryPoint - CommandSize)).mem,
    Poke(ZeroMemory, EntryPoint + CommandSize + CommandSize, U8Limit - 1)
}

MaxHandedOver == 1

ShortPrograms == UNION {[1 .. n -> Menu] : n \in 0 .. MaxHandedOver}

RunAnyInit ==
    /\ defines = EmptyMap
    /\ args = EmptyMap
    /\ functions = EmptyMap
    /\ files = {}
    /\ commands \in ShortPrograms
    /\ result = "Ok"
    /\ memory \in RunMemories
    /\ entry = 0
    /\ pc_val = 0
    /\ macros = EmptyMap
    /\ pos = "compiled"
    /\ iter = 0
    /\ fired = <<>>
    /\ last = [step |-> "new"]

\* The run as the process executes it: it does not pause before its end.
RunFairSpec == RunAnyInit /\ [][RunNext]_vars /\ WF_vars(RunNext)

Stopped == pos \in {"aborted", "panic"}

\* C24: run always stops: whatever the Program, the entry address and the
\* memory handed over, the loop reaches an end, the clean Aborted or a
\* fatal error, and the address an iteration fetches from is the entry
\* address plus 5 for every iteration before it, never above 0xFFFF.
C24_RunStops ==
    /\ <>Stopped
    /\ [][pos = "eval" => /\ last'.at = entry + CommandSize * (iter - 1)
                          /\ last'.at < U16Limit]_vars

JumpBack == NewCommand("Set", 0, EntryPoint - CommandSize)

\* A run from EntryPoint whose first instruction stores the address before
\* the entry into cell 0 has gone through every address up to the last and
\* ended there.
C24_Witness ==
    /\ Stopped
    /\ entry = EntryPoint
    /\ commands = <<JumpBack>>
    /\ iter = IterLimit
    /\ pc_val = U16Limit - 1

(***************************************************************************)
(* The codec on its own: Command::encode and Command::decode applied to    *)
(* buffers of every first byte.                                            *)
(***************************************************************************)
OperandSamples == {0, 4660, U16Limit - 1}

CommandSamples == {NewCommand(op, a, b) : op \in Op, a, b \in OperandSamples}

\* Where the slice handed to encode or decode starts: the start of the
\* buffer, and 4 bytes before its end (a slice too short for a Command).
Offsets == {0, MemSize - 4}

\* Buffers whose first byte is any byte, followed by a fixed pattern.
Buffers ==
    {[i \in IF first = 0 THEN 1 .. 4 ELSE 0 .. 4 |->
         IF i = 0 THEN first ELSE 16 * i + 1] : first \in 0 .. (U8Limit - 1)}

CodecInit ==
    /\ defines = EmptyMap
    /\ args = EmptyMap
    /\ functions = EmptyMap
    /\ files = {}
    /\ commands = <<>>
    /\ result = "Ok"
    /\ memory \in Buffers
    /\ entry = 0
    /\ pc_val = 0
    /\ macros = EmptyMap
    /\ pos = "codec"
    /\ iter = 0
    /\ fired = <<>>
    /\ last = [step |-> "new"]

DoEncode(c, at) ==
    /\ pos = "codec"
    /\ LET e == Encode(memory, at, c)
       IN  /\ memory' = e.mem
           /\ result' = [outcome |-> IF e.panic THEN "panic" ELSE "ok", cmd |-> None]
    /\ last' = [step |-> "encode", at |-> at, cmd |-> c, before |-> memory]
    /\ pos' = "encoded"
    /\ UNCHANGED <<compilerVars, entry, pc_val, macros, iter, fired>>

DoDecode(at) ==
    /\ pos \in {"codec", "encoded"}
    /\ result' = Decode(memory, at)
    /\ last' = [step |-> "decode", at |-> at, prev |-> last]
    /\ pos' = "decoded"
    /\ UNCHANGED <<compilerVars, memory, entry, pc_val, macros, iter, fired>>

CodecNext ==
    \/ \E c \in CommandSamples, at \in Offsets : DoEncode(c, at)
    \/ \E at \in Offsets : DoDecode(at)

CodecSpec == CodecInit /\ [][CodecNext]_vars

Decoded == last.step = "decode" /\ result.outcome # "panic"

\* C4 (as claimed): the opcodes have the codes 1..6 (SUB = 2, SET = 3,
\* LOD = 5, STR = 6), and decoding succeeds exactly when the first byte is in
\* 1..6, every other first byte failing with InvalidOpcode.
C4_CodesOneToSix ==
    Decoded => /\ (result.outcome = "ok") = (Byte(memory, last.at) \in 1 .. 6)
               /\ result.outcome \in {"ok", "invalid"}
               /\ result.outcome = "ok" => OpToU8(result.cmd.op) = Byte(memory, last.at)
               /\ \A op \in Op : OpToU8(op) \in 1 .. 6
               /\ OpToU8("Sub") = 2 /\ OpToU8("Set") = 3
               /\ OpToU8("Lod") = 5 /\ OpToU8("Str") = 6

\* C4 (amended): the opcodes have the codes 0..5 (ADD = 0, SUB = 1, SET = 2,
\* CPY = 3, LOD = 4, STR = 5), and decoding a 5-byte record succeeds exactly
\* when its first byte is in 0..5, giving the opcode of that code; every
\* other first byte fails with InvalidOpcode.
C4_CodesZeroToFive ==
    Decoded => /\ (result.outcome = "ok") = (Byte(memory, last.at) \in 0 .. 5)
               /\ result.outcome \in {"ok", "invalid"}
               /\ result.outcome = "ok" => OpToU8(result.cmd.op) = Byte(memory, last.at)
               /\ \A op \in Op : OpToU8(op) \in 0 .. 5
               /\ OpToU8("Add") = 0 /\ OpToU8("Sub") = 1 /\ OpToU8("Set") = 2
               /\ OpToU8("Cpy") = 3 /\ OpToU8("Lod") = 4 /\ OpToU8("Str") = 5

C4_Witness ==
    /\ Decoded
    /\ last.prev.step = "new"
    /\ Byte(memory, last.at) = 0
    /\ result.outcome = "ok"
    /\ result.cmd.op = "Add"

\* C5: decode(encode(c)) = c for every Command c, encode writing exactly 5
\* bytes: the opcode byte, a little-endian, b little-endian.
C5_RoundTrip ==
    /\ (last.step = "encode" /\ result.outcome = "ok")
         => /\ Byte(memory, last.at) = OpToU8(last.cmd.op)
            /\ Byte(memory, last.at + 1) = last.cmd.a % U8Limit
            /\ Byte(memory, last.at + 2) = last.cmd.a \div U8Limit
            /\ Byte(memory, last.at + 3) = last.cmd.b % U8Limit
            /\ Byte(memory, last.at + 4) = last.cmd.b \div U8Limit
            /\ \A i \in (DOMAIN memory) \cup (DOMAIN last.before) :
                   i \in last.at .. (last.at + 4) \/ Byte(memory, i) = Byte(last.before, i)
    /\ (Decoded /\ last.prev.step = "encode" /\ last.prev.at = last.at)
         => (result.outcome = "ok" /\ result.cmd = last.prev.cmd)

C5_Witness ==
    /\ Decoded
    /\ last.prev.step = "encode"
    /\ last.prev.at = last.at
    /\ last.prev.cmd = NewCommand("Str", 4660, U16Limit - 1)
    /\ result.cmd = NewCommand("Str", 4660, U16Limit - 1)
    /\ Byte(memory, last.at + 1) = 52
    /\ Byte(memory, last.at + 2) = 18

(***************************************************************************)
(* Op::execute on its own: one instruction applied to memories whose cells *)
(* at 0x10, 0x20 and 0x22 hold values, pointers and out-of-buffer pointers *)
(***************************************************************************)
Operands == {0, 16, 17, 32, 34, 4660, U16Limit - 2, U16Limit - 1}

ExecMemories ==
    {Write(Write(Write(ZeroMemory, 16, v1), 32, v2), 34, v3) :
        v1 \in {0, 99, 4660}, v2 \in {16, 32, U16Limit - 1}, v3 \in {16, 34, 4660}}

ExecInit ==
    /\ defines = EmptyMap
    /\ args = EmptyMap
    /\ functions = EmptyMap
    /\ files = {}
    /\ commands = <<>>
    /\ result = "Ok"
    /\ memory \in ExecMemories
    /\ entry = 0
    /\ pc_val = 0
    /\ macros = EmptyMap
    /\ pos = "exec"
    /\ iter = 0
    /\ fired = <<>>
    /\ last = [step |-> "new"]

\* Command::execute of Command { op, a, b } on the memory.
DoExecute(op, a, b) ==
    /\ pos = "exec"
    /\ LET e == Execute(memory, op, a, b)
       IN  /\ memory' = e.mem
           /\ last' = [step |-> "execute", op |-> op, a |-> a, b |-> b,
                       before |-> memory, panic |-> e.panic]
    /\ pos' = "executed"
    /\ UNCHANGED <<compilerVars, result, entry, pc_val, macros, iter, fired>>

ExecNext == \E op \in Op, a, b \in Operands : DoExecute(op, a, b)

ExecSpec == ExecInit /\ [][ExecNext]_vars

Ran(op) == last.step = "execute" /\ last.op = op

\* x - y in 16 bits.
WrappingSub(x, y) == IF x >= y THEN x - y ELSE x - y + U16Limit

\* C13: SUB a b sets the cell at a to (mem[a] - mem[b]) mod 2^16, both cells
\* read before the write (SUB a a gives 0), and changes no byte outside the
\* two bytes of cell a.
C13_SubWraps ==
    (Ran("Sub") /\ InBuffer(last.a, 2) /\ InBuffer(last.b, 2))
      => /\ ~last.panic
         /\ Read(memory, last.a) = WrappingSub(Read(last.before, last.a), Read(last.before, last.b))
         /\ last.a = last.b => Read(memory, last.a) = 0
         /\ SameOutsideCell(last.before, memory, last.a)

\* SUB 0x10 0x22 with mem[0x10] = 0 and mem[0x22] = 0x1234: the difference
\* wraps to 0xEDCC.
C13_Witness ==
    /\ Ran("Sub")
    /\ last.a = 16 /\ last.b = 34
    /\ Read(last.before, 16) = 0
    /\ Read(last.before, 34) = 4660
    /\ Read(memory, 16) = 60876

\* C14: SET a b writes the operand b itself, little-endian, into the bytes a
\* and a + 1, and leaves every other byte as it was.
C14_SetImmediate ==
    (Ran("Set") /\ InBuffer(last.a, 2))
      => /\ ~last.panic
         /\ Byte(memory, last.a) = last.b % U8Limit
         /\ Byte(memory, last.a + 1) = last.b \div U8Limit
         /\ SameOutsideCell(last.before, memory, last.a)

\* SET 0x20 0x10 where the cell at 0x10 holds 0x1234: the cell at 0x20 gets
\* 0x10, not 0x1234.
C14_Witness ==
    /\ Ran("Set")
    /\ last.a = 32 /\ last.b = 16
    /\ Read(last.before, 16) = 4660
    /\ Read(memory, 32) = 16

\* C15: LOD a b sets the cell at a to mem[mem[b]], the pointer mem[b] and the
\* value it points to both read before the write, also when a = b or
\* a = mem[b]; no byte outside cell a changes.
C15_LodDoubleIndirection ==
    (/\ Ran("Lod")
     /\ InBuffer(last.a, 2)
     /\ InBuffer(last.b, 2)
     /\ InBuffer(Read(last.before, last.b), 2))
      => /\ ~last.panic
         /\ Read(memory, last.a) = Read(last.before, Read(last.before, last.b))
         /\ SameOutsideCell(last.before, memory, last.a)

\* The spec's example: mem[0x22] = 0x10 and mem[0x10] = 99, LOD 0x20 0x22
\* gives mem[0x20] = 99.
C15_Witness ==
    /\ Ran("Lod")
    /\ last.a = 32 /\ last.b = 34
    /\ Read(last.before, 34) = 16
    /\ Read(last.before, 16) = 99
    /\ Read(last.before, 32) # 99
    /\ Read(memory, 32) = 99

Overlaps(p, q) == p \in {q - 1, q, q + 1}

\* C16: STR a b writes the value of cell a into the cell whose address is the
\* content of cell b, both read before the write; no byte outside that cell
\* changes, so cells a and b stay as they were unless it overlaps them.
C16_StrIndirectStore ==
    (/\ Ran("Str")
     /\ InBuffer(last.a, 2)
     /\ InBuffer(last.b, 2)
     /\ InBuffer(Read(last.before, last.b), 2))
      => LET ptr == Read(last.before, last.b)
         IN  /\ ~last.panic
             /\ Read(memory, ptr) = Read(last.before, last.a)
             /\ SameOutsideCell(last.before, memory, ptr)
             /\ ~Overlaps(ptr, last.a) => Read(memory, last.a) = Read(last.before, last.a)
             /\ ~Overlaps(ptr, last.b) => Read(memory, last.b) = Read(last.before, last.b)

\* STR 0x10 0x22 with mem[0x10] = 99 and mem[0x22] = 0x1234: the cell at
\* 0x1234 gets 99, the cells at 0x10 and 0x22 keep their values.
C16_Witness ==
    /\ Ran("Str")
    /\ last.a = 16 /\ last.b = 34
    /\ Read(last.before, 16) = 99
    /\ Read(last.before, 34) = 4660
    /\ Read(memory, 4660) = 99
    /\ Read(memory, 34) = 4660
    /\ Read(memory, 16) = 99

====
